---------------------------- MODULE Spec2Model ----------------------------
(***************************************************************************)
(* A state-machine model of the Brewin interpreter of p3/interpreterv3.py. *)
(* The recursive tree walk of the interpreter is unfolded into an explicit *)
(* control stack (ctl): one frame per active Python call of a handler,     *)
(* with the handler's position in it.  Values travel between handlers on   *)
(* a value stack (vals); the (status, return_val) pair a statement handler *)
(* returns is held in ret.                                                 *)
(***************************************************************************)
EXTENDS Integers, Sequences, FiniteSets, TLC

\* ------------------------------------------------------------------ bounds
\* Integer literals of the programs range over 0..MaxInt (negative operands
\* are built with the unary minus node, as the parser builds them).
MaxInt == 2
\* The host's recursion limit, counted in active user-function calls.
MaxDepth == 3

\* ------------------------------------------------------- python primitives
\* Python's None as a value (the result of EnvironmentManager.get on a miss).
None == [none |-> TRUE]
\* Python's None where a name is expected (Element.get("name") on a node
\* that has no name): no identifier is empty.
NoName == ""

Max(S) == CHOOSE x \in S : \A y \in S : y <= x

\* Element.get(key): the field, or None when the node has no such field.
Has(node, key) == key \in DOMAIN node

\* hasattr(obj, 'elem_type'): obj is a parser node, not a Value.
IsElement(obj) == "elem_type" \in DOMAIN obj

\* ------------------------------------------------------------------ values
\* type_valuev3.Value(type, value): a type tag and a payload.  The payload
\* is kept in a field of its own kind, so that values of different types
\* are unequal rather than incomparable; Nil's payload is None.
Value(t, v) ==
    CASE t = "int" -> [type |-> t, ival |-> v]
      [] t = "bool" -> [type |-> t, bval |-> v]
      [] t = "string" -> [type |-> t, sval |-> v]
      [] t = "func" -> [type |-> t, fval |-> v]
      [] t = "nil" -> [type |-> t]

\* Value.value_of()
value_of(x) ==
    CASE x.type = "int" -> x.ival
      [] x.type = "bool" -> x.bval
      [] x.type = "string" -> x.sval
      [] x.type = "func" -> x.fval
      [] x.type = "nil" -> None

NIL_VALUE == Value("nil", None)
TRUE_VALUE == Value("bool", TRUE)

\* The payload of an Int or Bool as a Python number (bool is a subclass of
\* int: True is 1 and False is 0).
Num(x) == IF x.type = "bool" THEN (IF value_of(x) THEN 1 ELSE 0) ELSE value_of(x)

IsNum(x) == x.type \in {"int", "bool"}

\* Python's truth test of a payload (if y.value_of(), x.value_of() and y.value_of()).
Truthy(x) ==
    CASE x.type = "int" -> value_of(x) # 0
      [] x.type = "bool" -> value_of(x)
      [] x.type = "string" -> value_of(x) # ""
      [] x.type = "nil" -> FALSE
      [] x.type = "func" -> TRUE

\* Python's y.value_of() == n for an integer or boolean constant n (True is 1,
\* False is 0): a payload that is not a number equals no number.
PayloadIs(x, n) == IsNum(x) /\ Num(x) = n

\* Python's x.value_of() == y.value_of().
PayloadEq(x, y) ==
    CASE IsNum(x) /\ IsNum(y) -> Num(x) = Num(y)
      [] x.type = "string" /\ y.type = "string" -> value_of(x) = value_of(y)
      [] x.type = "nil" /\ y.type = "nil" -> TRUE
      [] x.type = "func" /\ y.type = "func" -> value_of(x) = value_of(y)
      [] OTHER -> FALSE

\* type_valuev3.get_printable: the display text of a value.
get_printable(x) ==
    CASE x.type = "int" -> ToString(value_of(x))
      [] x.type = "string" -> value_of(x)
      [] x.type = "bool" -> IF value_of(x) THEN "true" ELSE "false"


\* ------------------------------------------------------ EnvironmentManager
\* The scope manager: a stack of variable frames (innermost last) and the
\* stack of alias frames of the active user-function calls.  An alias frame
\* records the index of its call's parameter frame (the caller's frames are
\* the ones below it) and, per by-reference formal, the caller-side name.
EnvironmentManager == [environment |-> << <<>> >>, refs |-> <<>>]

Defining(e, symbol, top) ==
    {i \in 1..top : symbol \in DOMAIN e.environment[i]}

\* get: search the frames innermost first; None when no frame has the name.
env_get(e, symbol) ==
    LET idx == Defining(e, symbol, Len(e.environment))
    IN IF idx = {} THEN None ELSE e.environment[Max(idx)][symbol]

\* create: bind the name in the innermost frame.
env_create(e, symbol, value) ==
    LET top == Len(e.environment)
    IN [e EXCEPT !.environment[top] = (symbol :> value) @@ @]

\* set: replace the value in the innermost frame that defines the name; a
\* name no frame defines is bound in the innermost frame.
env_set(e, symbol, value) ==
    LET idx == Defining(e, symbol, Len(e.environment))
    IN IF idx = {} THEN env_create(e, symbol, value)
       ELSE [e EXCEPT !.environment[Max(idx)] = (symbol :> value) @@ @]

env_push(e) == [e EXCEPT !.environment = Append(@, <<>>)]

env_pop(e) == [e EXCEPT !.environment = SubSeq(@, 1, Len(@) - 1)]

\* ref_push, called right after push on function entry: the new alias
\* frame belongs to the parameter frame that is now innermost.
ref_push(e) ==
    [e EXCEPT !.refs = Append(@, [base |-> Len(e.environment), alias |-> <<>>])]

ref_pop(e) == [e EXCEPT !.refs = SubSeq(@, 1, Len(@) - 1)]

\* ref_create: the formal of the call being set up aliases the caller-side
\* name (NoName when the actual argument has no name).
ref_create(e, arg_name, target) ==
    LET top == Len(e.refs)
    IN [e EXCEPT !.refs[top].alias = (arg_name :> target) @@ @]

\* get_ref: the caller-side name the active call aliases to the name, or
\* None (NoName).
get_ref(e, var_name) ==
    IF e.refs = <<>> THEN NoName
    ELSE LET fr == e.refs[Len(e.refs)]
         IN IF var_name \in DOMAIN fr.alias THEN fr.alias[var_name] ELSE NoName

\* ref_set: mirror the write onto the aliased variable in the caller's
\* frames (the innermost one below the call's parameter frame that defines
\* it); no caller variable of that name, no effect.
ref_set(e, var_name, value) ==
    LET fr == e.refs[Len(e.refs)]
        idx == Defining(e, fr.alias[var_name], fr.base - 1)
    IN IF idx = {} THEN e
       ELSE [e EXCEPT !.environment[Max(idx)] = (fr.alias[var_name] :> value) @@ @]

\* ------------------------------------------------------- operator registry
BIN_OPS == {"+", "-", "*", "/", "==", "!=", ">", ">=", "<", "<=", "||", "&&"}

Ok(v) == [ok |-> TRUE, val |-> v]
\* An uncaught host exception (ZeroDivisionError, AttributeError, KeyError,
\* RecursionError): neither of the interpreter's two error kinds.
Fault(kind) == [ok |-> FALSE, host |-> TRUE, kind |-> kind]
\* InterpreterBase.error(error_type): raises the interpreter's exception.
error(error_type) == [ok |-> FALSE, host |-> FALSE, kind |-> error_type]

\* The operator symbols op_to_lambda[t] defines.
OpsOf(t) ==
    CASE t = "int" -> BIN_OPS
      [] t = "string" -> {"+", "==", "!="}
      [] t = "bool" -> {"&&", "||", "==", "!=", "+", "-", "*", "/"}
      [] t = "func" -> {"==", "!="}
      [] t = "nil" -> {"==", "!="}

\* Python's floor division; a zero divisor raises ZeroDivisionError.
FloorDiv(t, a, b) == IF b = 0 THEN Fault("ZeroDivisionError") ELSE Ok(Value(t, a \div b))

\* A plausible slip: the division guards an Int zero like a Bool false.
IntDiv_guarded(x, y) ==
    IF y.type = "int"
    THEN (IF value_of(y) = 0 THEN Ok(Value(x.type, 0))
          ELSE FloorDiv(x.type, value_of(x), value_of(y)))
    ELSE IF Truthy(y) THEN FloorDiv(x.type, value_of(x), 1)
    ELSE Ok(Value(x.type, 0))

\* op_to_lambda[Type.INT]["/"](x, y): floor division by an Int; a Bool
\* divisor divides by 1 when true and yields 0 when false.
IntDiv(x, y) ==
    IF y.type = "int" THEN FloorDiv(x.type, value_of(x), value_of(y))
    ELSE IF Truthy(y) THEN FloorDiv(x.type, value_of(x), 1)
    ELSE Ok(Value(x.type, 0))

\* A plausible slip: Int == Int compares the numbers.
IntEq_numeric(x, y) ==
    Ok(Value("bool",
        IF y.type = "bool"
        THEN (x.type = y.type \/ y.type = "bool")
             /\ ((value_of(x) # 0 /\ PayloadIs(y, 1)) \/ (value_of(x) = 0 /\ PayloadIs(y, 0)))
        ELSE PayloadIs(y, value_of(x))))

\* op_to_lambda[Type.INT]["=="](x, y): against a Bool, the Int's truthiness
\* against the Bool; otherwise both payloads non-zero, or both zero.
IntEq(x, y) ==
    Ok(Value("bool",
        IF y.type = "bool"
        THEN (x.type = y.type \/ y.type = "bool")
             /\ ((value_of(x) # 0 /\ PayloadIs(y, 1)) \/ (value_of(x) = 0 /\ PayloadIs(y, 0)))
        ELSE (value_of(x) # 0 /\ ~PayloadIs(y, 0)) \/ (value_of(x) = 0 /\ PayloadIs(y, 0))))

\* op_to_lambda[Type.INT][op](x, y)
IntOp(op, x, y) ==
    CASE op = "+" -> Ok(Value(x.type, IF y.type = "int" THEN value_of(x) + value_of(y)
                                       ELSE IF Truthy(y) THEN value_of(x) + 1 ELSE value_of(x)))
      [] op = "-" -> Ok(Value(x.type, IF y.type = "int" THEN value_of(x) - value_of(y)
                                       ELSE IF Truthy(y) THEN value_of(x) - 1 ELSE value_of(x)))
      [] op = "*" -> Ok(Value(x.type, IF y.type = "int" THEN value_of(x) * value_of(y)
                                       ELSE IF Truthy(y) THEN value_of(x) * 1 ELSE 0))
      [] op = "/" -> IntDiv(x, y)
      [] op = "==" -> IntEq(x, y)
      [] op = "!=" -> Ok(Value("bool",
             (x.type # y.type /\ y.type # "bool")
             \/ ((value_of(x) = 0 /\ PayloadIs(y, 1)) \/ (value_of(x) # 0 /\ PayloadIs(y, 0)))))
      [] op = "&&" -> Ok(Value("bool",
             (x.type = y.type \/ y.type = "bool") /\ (Truthy(x) /\ Truthy(y))))
      [] op = "||" -> Ok(Value("bool",
             (x.type = y.type \/ y.type = "bool") /\ (Truthy(x) \/ Truthy(y))))
      [] op = "<" -> Ok(Value("bool", value_of(x) < value_of(y)))
      [] op = "<=" -> Ok(Value("bool", value_of(x) <= value_of(y)))
      [] op = ">" -> Ok(Value("bool", value_of(x) > value_of(y)))
      [] op = ">=" -> Ok(Value("bool", value_of(x) >= value_of(y)))

\* op_to_lambda[Type.STRING][op](x, y)
StringOp(op, x, y) ==
    CASE op = "+" -> Ok(Value(x.type, value_of(x) \o value_of(y)))
      [] op = "==" -> Ok(Value("bool", PayloadEq(x, y)))
      [] op = "!=" -> Ok(Value("bool", ~PayloadEq(x, y)))

\* op_to_lambda[Type.BOOL][op](x, y)
BoolOp(op, x, y) ==
    CASE op = "&&" -> Ok(Value(x.type,
             (x.type = y.type \/ y.type = "int") /\ (Truthy(x) /\ Truthy(y))))
      [] op = "||" -> Ok(Value(x.type,
             (x.type = y.type \/ y.type = "int") /\ (Truthy(x) \/ Truthy(y))))
      [] op = "==" -> Ok(Value("bool",
             (x.type = y.type \/ y.type = "int")
             /\ ((value_of(x) /\ ~PayloadIs(y, 0)) \/ (~value_of(x) /\ PayloadIs(y, 0)))))
      [] op = "!=" -> Ok(Value("bool",
             (x.type # y.type /\ y.type # "int")
             \/ ((value_of(x) /\ PayloadIs(y, 0)) \/ (~value_of(x) /\ ~PayloadIs(y, 0)))))
      [] op = "+" -> Ok(Value("int",
             IF y.type = "int" /\ value_of(x) THEN 1 + value_of(y)
             ELSE IF y.type = "int" THEN value_of(y)
             ELSE IF value_of(x) /\ Truthy(y) THEN 1 + 1
             ELSE IF value_of(x) # Truthy(y) THEN 1 ELSE 0))
      [] op = "-" -> Ok(Value("int",
             IF y.type = "int" /\ value_of(x) THEN 1 - value_of(y)
             ELSE IF y.type = "int" THEN (-1) * value_of(y)
             ELSE IF value_of(x) /\ Truthy(y) THEN 0
             ELSE IF value_of(x) /\ ~Truthy(y) THEN 1
             ELSE IF ~value_of(x) /\ Truthy(y) THEN -1 ELSE 0))
      [] op = "*" -> Ok(Value("int",
             IF y.type = "int" /\ value_of(x) THEN value_of(y)
             ELSE IF y.type = "int" THEN 0
             ELSE IF value_of(x) /\ Truthy(y) THEN 1 ELSE 0))
      [] op = "/" ->
             IF y.type = "int" /\ value_of(x) THEN FloorDiv("int", 1, value_of(y))
             ELSE IF y.type = "int" THEN Ok(Value("int", 0))
             ELSE IF value_of(x) /\ Truthy(y) THEN Ok(Value("int", 1))
             ELSE FloorDiv("int", Num(x), Num(y))

\* op_to_lambda[Type.NIL][op](x, y); y may be a parser node (no type()).
NilOp(op, x, y) ==
    CASE op = "==" -> Ok(Value("bool", IF IsElement(y) THEN FALSE
                                        ELSE x.type = y.type \/ PayloadEq(x, y)))
      [] op = "!=" -> Ok(Value("bool", IF IsElement(y) THEN TRUE
                                        ELSE x.type # y.type \/ ~PayloadEq(x, y)))

\* The payload a function reference compares by identity: the definition
\* node itself, or the node a FUNC Value wraps.
FuncNode(x) == IF IsElement(x) THEN x ELSE value_of(x)

\* op_to_lambda[Type.FUNC][op](x, y): identity of the definition nodes (a
\* definition occurs once in a program, so the same node is the equal node).
FuncOp(op, x, y) ==
    LET same == (IsElement(y) \/ y.type = "func") /\ FuncNode(x) = FuncNode(y)
    IN CASE op = "==" -> Ok(Value("bool", same))
         [] op = "!=" -> Ok(Value("bool", ~same))

\* __compatible_types(oper, obj1, obj2); a parser node has no type(), so
\* asking for it raises AttributeError.
compatible_types(oper, obj1, obj2) ==
    IF oper \in {"==", "!="} THEN Ok(TRUE)
    ELSE IF IsElement(obj1) \/ IsElement(obj2) THEN Fault("AttributeError")
    ELSE IF oper \in {"&&", "||", "+", "-", "*", "/"}
         THEN Ok((obj1.type = "bool" \/ obj1.type = "int")
                 /\ (obj2.type = "bool" \/ obj2.type = "int"))
    ELSE Ok(obj1.type = obj2.type)

\* The lambda of a left operand's type applied to the operands.  The INT,
\* STRING and BOOL lambdas ask the right operand for type() or value_of().
op_to_lambda(t, op, x, y) ==
    IF t \in {"int", "string", "bool"} /\ IsElement(y) THEN Fault("AttributeError")
    ELSE CASE t = "int" -> IntOp(op, x, y)
           [] t = "string" -> StringOp(op, x, y)
           [] t = "bool" -> BoolOp(op, x, y)
           [] t = "nil" -> NilOp(op, x, y)
           [] t = "func" -> FuncOp(op, x, y)

\* __eval_op after both operands are evaluated: the type pre-check, the
\* lookup of the lambda and its application.
apply_op(op, left_value_obj, right_value_obj) ==
    LET compat == compatible_types(op, left_value_obj, right_value_obj)
    IN IF ~compat.ok THEN compat
       ELSE IF ~compat.val THEN error("TYPE_ERROR")
       ELSE IF IsElement(left_value_obj) /\ left_value_obj.elem_type # "func"
            THEN Fault("AttributeError")
       ELSE IF IsElement(left_value_obj) /\ left_value_obj.elem_type = "func"
            THEN IF op \notin OpsOf("func") THEN error("TYPE_ERROR")
                 ELSE op_to_lambda("func", op, left_value_obj, right_value_obj)
       ELSE IF op \notin OpsOf(left_value_obj.type) THEN Fault("KeyError")
       ELSE op_to_lambda(left_value_obj.type, op, left_value_obj, right_value_obj)

\* ------------------------------------------------------------ parser nodes
\* The nodes brewparse builds (intbase's elem_type vocabulary).
\* A literal node's val is kept as the Value that __eval_expr makes of it,
\* so that literal nodes of different types are comparable.
IntLit(n) == [elem_type |-> "int", val |-> Value("int", n)]
StrLit(s) == [elem_type |-> "string", val |-> Value("string", s)]
BoolLit(b) == [elem_type |-> "bool", val |-> Value("bool", b)]
NilLit == [elem_type |-> "nil"]
Var(name) == [elem_type |-> "var", name |-> name]
Call(name, args) == [elem_type |-> "fcall", name |-> name, args |-> args]
Bin(op, a, b) == [elem_type |-> op, op1 |-> a, op2 |-> b]
Neg(a) == [elem_type |-> "neg", op1 |-> a]
Not(a) == [elem_type |-> "!", op1 |-> a]
Lambda(args, body) == [elem_type |-> "lambda", args |-> args, statements |-> body]
Assign(name, e) == [elem_type |-> "=", name |-> name, expression |-> e]
Return(e) == [elem_type |-> "return", expression |-> e]
ReturnNil == [elem_type |-> "return"]
If(c, body) == [elem_type |-> "if", condition |-> c, statements |-> body]
IfElse(c, body, els) ==
    [elem_type |-> "if", condition |-> c, statements |-> body, else_statements |-> els]
While(c, body) == [elem_type |-> "while", condition |-> c, statements |-> body]
Arg(name) == [elem_type |-> "arg", name |-> name]
RefArg(name) == [elem_type |-> "refarg", name |-> name]
Func(name, args, body) ==
    [elem_type |-> "func", name |-> name, args |-> args, statements |-> body]
Program(functions) == [elem_type |-> "program", functions |-> functions]

\* actual_ast.get("name"): a variable's or a call's name, else None.
NameOf(node) == IF Has(node, "name") THEN node.name ELSE NoName

\* ------------------------------------------------------------------- state
VARIABLES
    program,           \* the parsed program handed to run
    status,            \* "init", "running", "done", "error" (interpreter error), "fault" (host exception)
    error_type,        \* the ErrorType of the error, or the host exception's name
    func_name_to_ast,  \* name -> (number of parameters -> function definition)
    env,               \* the EnvironmentManager
    ctl,               \* the active handler calls, innermost first
    vals,              \* values returned by expression handlers, latest first
    ret,               \* the (status, return_val) a statement handler returned
    output,            \* the lines given to InterpreterBase.output
    event              \* what the last handler step did (observation only)

vars == <<program, status, error_type, func_name_to_ast, env, ctl, vals, ret, output, event>>

NoRet == [status |-> "NONE", val |-> NIL_VALUE]
CONTINUE(v) == [status |-> "CONTINUE", val |-> v]
RETURN(v) == [status |-> "RETURN", val |-> v]

\* copy.deepcopy of a Value: an equal, independent value.
deepcopy(v) == v

\* ----------------------------------------------------------- function table
\* The loop of __set_up_function_table from the i-th definition on: st holds
\* the table and the environment built so far.
RECURSIVE set_up_function_table(_, _, _)
set_up_function_table(functions, i, st) ==
    IF i > Len(functions) THEN st
    ELSE LET func_def == functions[i]
             func_name == func_def.name
             num_params == Len(func_def.args)
             dup == func_name \in DOMAIN st.table
             bucket == IF dup THEN st.table[func_name] ELSE <<>>
             table2 == (func_name :> ((num_params :> func_def) @@ bucket)) @@ st.table
             env2 == IF ~dup THEN env_set(st.env, func_name, func_def) ELSE st.env
         IN set_up_function_table(functions, i + 1, [table |-> table2, env |-> env2])

\* A plausible slip: the arity bucket is not keyed by the argument count
\* (the definition with the most parameters is taken).
get_func_by_name_any_arity(table, e, name, num_params) ==
    LET first_class == name \notin DOMAIN table
        assigned_func == env_get(e, name)
    IN IF first_class /\ assigned_func = None THEN error("NAME_ERROR")
       ELSE IF first_class /\ ~IsElement(assigned_func) THEN Ok(value_of(assigned_func))
       ELSE LET name2 == IF first_class THEN assigned_func.name ELSE name
                candidate_funcs == table[name2]
            IN IF Cardinality(DOMAIN candidate_funcs) > 1 /\ first_class
               THEN error("NAME_ERROR")
               ELSE Ok(candidate_funcs[Max(DOMAIN candidate_funcs)])

\* A plausible slip: only declared top-level names resolve (a variable that
\* holds a function is not looked up).
get_func_by_name_declared_only(table, e, name, num_params) ==
    IF name \notin DOMAIN table THEN error("NAME_ERROR")
    ELSE IF num_params \notin DOMAIN table[name] THEN error("NAME_ERROR")
    ELSE Ok(table[name][num_params])

\* __get_func_by_name(name, num_params): the definition to call, or the
\* NAME_ERROR it raises.  A variable that holds a Value (which has no get)
\* yields the Value's payload.
get_func_by_name(table, e, name, num_params) ==
    LET first_class == name \notin DOMAIN table
        assigned_func == env_get(e, name)
    IN IF first_class /\ assigned_func = None THEN error("NAME_ERROR")
       ELSE IF first_class /\ ~IsElement(assigned_func) THEN Ok(value_of(assigned_func))
       ELSE LET name2 == IF first_class THEN assigned_func.name ELSE name
                candidate_funcs == table[name2]
            IN IF Cardinality(DOMAIN candidate_funcs) > 1 /\ first_class
               THEN error("NAME_ERROR")
               ELSE IF num_params \notin DOMAIN candidate_funcs
               THEN error("NAME_ERROR")
               ELSE Ok(candidate_funcs[num_params])

\* The try block of __call_func: resolve the function and read its formals;
\* the bare except turns whatever is raised inside into TYPE_ERROR.
resolve_call(table, e, func_name, num_args) ==
    LET r == get_func_by_name(table, e, func_name, num_args)
        assigned_func == env_get(e, func_name)
        payload == func_name \notin DOMAIN table /\ assigned_func # None
                   /\ ~IsElement(assigned_func)
    IN IF ~r.ok THEN error("TYPE_ERROR")
       ELSE IF payload /\ assigned_func.type # "func" THEN error("TYPE_ERROR")
       ELSE r

\* -------------------------------------------------------------- the machine
Top == Head(ctl)
Rest == Tail(ctl)

StmtsFrame(statements) == [k |-> "stmts", statements |-> statements, pc |-> 1, ph |-> "next"]
ExprFrame(e) == [k |-> "expr", e |-> e]

Goto(c, v, e, r, o, ev) ==
    /\ ctl' = c
    /\ vals' = v
    /\ env' = e
    /\ ret' = r
    /\ output' = o
    /\ event' = ev
    /\ UNCHANGED <<program, status, error_type, func_name_to_ast>>

\* An exception nothing catches: the run ends with it.
Raise(r, ev) ==
    /\ status' = IF r.host THEN "fault" ELSE "error"
    /\ error_type' = r.kind
    /\ event' = ev
    /\ UNCHANGED <<program, func_name_to_ast, env, ctl, vals, ret, output>>

\* The statement index the for loop of __run_statements moves to.
NextStatement(pc) == pc + 1

\* run(program): build the function table, find main, run its body; when
\* the body has returned, the run is over.
run ==
    IF status = "init"
    THEN LET st == set_up_function_table(program.functions, 1,
                       [table |-> <<>>, env |-> EnvironmentManager])
             main_func == get_func_by_name(st.table, st.env, "main", 0)
         IN /\ func_name_to_ast' = st.table
            /\ event' = [op |-> "run"]
            /\ UNCHANGED <<program, vals, ret, output>>
            /\ IF main_func.ok
               THEN /\ status' = "running"
                    /\ env' = env_push(st.env)
                    /\ ctl' = <<StmtsFrame(main_func.val.statements), [k |-> "run"]>>
                    /\ UNCHANGED error_type
               ELSE /\ status' = "error"
                    /\ error_type' = main_func.kind
                    /\ env' = st.env
                    /\ UNCHANGED ctl
    ELSE /\ status = "running"
         /\ Top.k = "run"
         /\ status' = "done"
         /\ ctl' = <<>>
         /\ event' = [op |-> "run_end"]
         /\ UNCHANGED <<program, error_type, func_name_to_ast, env, vals, ret, output>>

\* The frame a statement's handler starts in.
HandlerFrame(statement) ==
    CASE statement.elem_type = "fcall" -> [k |-> "call", node |-> statement, ph |-> "enter"]
      [] statement.elem_type = "=" -> [k |-> "assign", node |-> statement, ph |-> "eval"]
      [] statement.elem_type = "return" -> [k |-> "return", node |-> statement, ph |-> "eval"]
      [] statement.elem_type = "if" -> [k |-> "if", node |-> statement, ph |-> "cond"]
      [] statement.elem_type = "while" -> [k |-> "while", node |-> statement, ph |-> "cond"]

\* A plausible slip: the early return leaves the sequence's frame on the
\* stack.
run_statements_return_keeps_frame ==
    /\ status = "running"
    /\ Top.k = "stmts"
    /\ IF Top.ph = "next"
       THEN IF Top.pc > Len(Top.statements)
            THEN Goto(Rest, vals, env_pop(env), CONTINUE(NIL_VALUE), output,
                      [op |-> "statements_end"])
            ELSE Goto(<<HandlerFrame(Top.statements[Top.pc]), [Top EXCEPT !.ph = "after"]>>
                          \o Rest,
                      vals, env, NoRet, output,
                      [op |-> "statement", statement |-> Top.statements[Top.pc]])
       ELSE LET statement == Top.statements[Top.pc]
                plain == statement.elem_type \in {"fcall", "="}
                vals2 == IF statement.elem_type = "fcall" THEN Tail(vals) ELSE vals
            IN IF ~plain /\ ret.status = "RETURN"
               THEN Goto(Rest, vals2, env, ret, output, [op |-> "statements_return"])
               ELSE Goto(<<[Top EXCEPT !.ph = "next", !.pc = NextStatement(Top.pc)]>> \o Rest,
                         vals2, env, NoRet, output, [op |-> "statement_done"])

\* __run_statements (the scope frame is pushed by the step that enters it):
\* hand the next statement to its handler; when the handler is back, return
\* on RETURN and go on otherwise; past the last statement, pop and CONTINUE.
run_statements ==
    /\ status = "running"
    /\ Top.k = "stmts"
    /\ IF Top.ph = "next"
       THEN IF Top.pc > Len(Top.statements)
            THEN Goto(Rest, vals, env_pop(env), CONTINUE(NIL_VALUE), output,
                      [op |-> "statements_end"])
            ELSE Goto(<<HandlerFrame(Top.statements[Top.pc]), [Top EXCEPT !.ph = "after"]>>
                          \o Rest,
                      vals, env, NoRet, output,
                      [op |-> "statement", statement |-> Top.statements[Top.pc]])
       ELSE LET statement == Top.statements[Top.pc]
                plain == statement.elem_type \in {"fcall", "="}
                vals2 == IF statement.elem_type = "fcall" THEN Tail(vals) ELSE vals
            IN IF ~plain /\ ret.status = "RETURN"
               THEN Goto(Rest, vals2, env_pop(env), ret, output, [op |-> "statements_return"])
               ELSE Goto(<<[Top EXCEPT !.ph = "next", !.pc = NextStatement(Top.pc)]>> \o Rest,
                         vals2, env, NoRet, output, [op |-> "statement_done"])

\* __eval_expr: literals, lambdas and variables yield their value; calls and
\* operators go to their handlers.
eval_expr ==
    /\ status = "running"
    /\ Top.k = "expr"
    /\ LET e == Top.e
           t == e.elem_type
       IN CASE t = "nil" -> Goto(Rest, <<NIL_VALUE>> \o vals, env, ret, output, [op |-> "literal"])
            [] t \in {"int", "string", "bool"} ->
                 Goto(Rest, <<e.val>> \o vals, env, ret, output, [op |-> "literal"])
            [] t = "lambda" ->
                 Goto(Rest, <<Value("func", e)>> \o vals, env, ret, output, [op |-> "literal"])
            [] t = "var" ->
                 LET val == env_get(env, e.name)
                 IN IF val = None
                    THEN Raise(error("NAME_ERROR"), [op |-> "var", name |-> e.name])
                    ELSE Goto(Rest, <<val>> \o vals, env, ret, output,
                              [op |-> "var", name |-> e.name])
            [] t = "fcall" ->
                 Goto(<<[k |-> "call", node |-> e, ph |-> "enter"]>> \o Rest,
                      vals, env, ret, output, [op |-> "expr_call"])
            [] t \in BIN_OPS ->
                 Goto(<<ExprFrame(e.op1), [k |-> "op", node |-> e, ph |-> "right"]>> \o Rest,
                      vals, env, ret, output, [op |-> "expr_op"])
            [] t \in {"neg", "!"} ->
                 Goto(<<ExprFrame(e.op1), [k |-> "unary", node |-> e]>> \o Rest,
                      vals, env, ret, output, [op |-> "expr_unary"])

\* A plausible slip: && and || skip the right operand when the left one
\* decides the result.
eval_op_short_circuit ==
    /\ status = "running"
    /\ Top.k = "op"
    /\ IF Top.ph = "right"
       THEN IF /\ Top.node.elem_type \in {"&&", "||"}
               /\ ~IsElement(vals[1])
               /\ vals[1].type = "bool"
               /\ value_of(vals[1]) = (Top.node.elem_type = "||")
            THEN Goto(Rest, vals, env, ret, output,
                      [op |-> "eval_op", oper |-> Top.node.elem_type,
                       left |-> vals[1], right |-> vals[1], result |-> Ok(vals[1])])
            ELSE Goto(<<ExprFrame(Top.node.op2), [Top EXCEPT !.ph = "apply"]>> \o Rest,
                      vals, env, ret, output, [op |-> "op_right"])
       ELSE LET right_value_obj == vals[1]
                left_value_obj == vals[2]
                r == apply_op(Top.node.elem_type, left_value_obj, right_value_obj)
                ev == [op |-> "eval_op", oper |-> Top.node.elem_type,
                       left |-> left_value_obj, right |-> right_value_obj, result |-> r]
            IN IF r.ok
               THEN Goto(Rest, <<r.val>> \o Tail(Tail(vals)), env, ret, output, ev)
               ELSE Raise(r, ev)

\* __eval_op: the left operand is evaluated (by the step that got here), then
\* the right one, then the operation is looked up and applied.
eval_op ==
    /\ status = "running"
    /\ Top.k = "op"
    /\ IF Top.ph = "right"
       THEN Goto(<<ExprFrame(Top.node.op2), [Top EXCEPT !.ph = "apply"]>> \o Rest,
                 vals, env, ret, output, [op |-> "op_right"])
       ELSE LET right_value_obj == vals[1]
                left_value_obj == vals[2]
                r == apply_op(Top.node.elem_type, left_value_obj, right_value_obj)
                ev == [op |-> "eval_op", oper |-> Top.node.elem_type,
                       left |-> left_value_obj, right |-> right_value_obj, result |-> r]
            IN IF r.ok
               THEN Goto(Rest, <<r.val>> \o Tail(Tail(vals)), env, ret, output, ev)
               ELSE Raise(r, ev)

\* __eval_unary(arith_ast, t, f): neg takes an Int, ! takes a Bool or an Int.
eval_unary ==
    /\ status = "running"
    /\ Top.k = "unary"
    /\ LET value_obj == vals[1]
           neg == Top.node.elem_type = "neg"
           t == IF neg THEN {"int"} ELSE {"bool", "int"}
       IN IF IsElement(value_obj)
          THEN Raise(Fault("AttributeError"), [op |-> "eval_unary"])
          ELSE IF value_obj.type \notin t
          THEN Raise(error("TYPE_ERROR"), [op |-> "eval_unary"])
          ELSE Goto(Rest,
                    <<IF neg THEN Value("int", (-1) * value_of(value_obj))
                      ELSE Value("bool", ~Truthy(value_obj))>> \o Tail(vals),
                    env, ret, output, [op |-> "eval_unary"])

\* A plausible slip: a by-reference formal is bound like a by-value one.
bind_formal_no_alias(e, formal_ast, actual_ast, result) ==
    env_create(e, formal_ast.name, result)

\* A plausible slip: every formal is entered in the alias frame.
bind_formal_alias_all(e, formal_ast, actual_ast, result) ==
    ref_create(env_create(e, formal_ast.name, result), formal_ast.name, NameOf(actual_ast))

\* The body of the binding loop of __call_func for one (formal, actual)
\* pair: the formal is created in the callee's frame, and a by-reference
\* formal is also entered in the alias frame under the actual's name.
bind_formal(e, formal_ast, actual_ast, result) ==
    IF formal_ast.elem_type = "refarg"
    THEN ref_create(env_create(e, formal_ast.name, result), formal_ast.name, NameOf(actual_ast))
    ELSE env_create(e, formal_ast.name, result)

\* __call_func from the i-th (formal, actual) pair on: evaluate the actual,
\* or run the body when every pair is bound.
CallFrom(frame, e, i) ==
    IF i > Len(frame.node.args)
    THEN [ctl |-> <<StmtsFrame(frame.func.statements), [frame EXCEPT !.ph = "body"]>>,
          env |-> env_push(e)]
    ELSE [ctl |-> <<ExprFrame(frame.node.args[i]), [frame EXCEPT !.ph = "bind", !.i = i]>>,
          env |-> e]

\* __call_func(call_node): print goes to __call_print; otherwise resolve the
\* function, push the callee's frame and alias frame, bind each formal to a
\* copy of its evaluated actual, run the body, pop both frames and return
\* the body's value.
call_func ==
    /\ status = "running"
    /\ Top.k = "call"
    /\ LET call_node == Top.node
           func_name == call_node.name
       IN CASE Top.ph = "enter" /\ func_name = "print" ->
                 Goto(<<[k |-> "print", node |-> call_node, i |-> 1, out |-> "", w |-> FALSE]>>
                          \o Rest,
                      vals, env, ret, output, [op |-> "call_print"])
            [] Top.ph = "enter" /\ func_name # "print" ->
                 LET r == resolve_call(func_name_to_ast, env, func_name, Len(call_node.args))
                     ev == [op |-> "call", name |-> func_name,
                            nargs |-> Len(call_node.args), resolved |-> r]
                 IN IF ~r.ok THEN Raise(r, ev)
                    ELSE IF Len(call_node.args) # Len(r.val.args)
                    THEN Raise(error("NAME_ERROR"), ev)
                    ELSE IF Len(env.refs) >= MaxDepth
                    THEN Raise(Fault("RecursionError"), ev)
                    ELSE LET frame == [k |-> "call", node |-> call_node, func |-> r.val,
                                       i |-> 1, ph |-> "bind"]
                             c == CallFrom(frame, ref_push(env_push(env)), 1)
                         IN Goto(c.ctl \o Rest, vals, c.env, ret, output, ev)
            [] Top.ph = "bind" ->
                 LET result == deepcopy(vals[1])
                     e2 == bind_formal(env, Top.func.args[Top.i], call_node.args[Top.i], result)
                     c == CallFrom(Top, e2, Top.i + 1)
                 IN Goto(c.ctl \o Rest, Tail(vals), c.env, ret, output,
                         [op |-> "bind", name |-> Top.func.args[Top.i].name, value |-> result])
            [] Top.ph = "body" ->
                 Goto(Rest, <<ret.val>> \o vals, env_pop(ref_pop(env)), NoRet, output,
                      [op |-> "call_return", name |-> func_name, value |-> ret.val])

\* A plausible slip: the texts are joined with a blank.
call_print_spaced ==
    /\ status = "running"
    /\ Top.k = "print"
    /\ LET args == Top.node.args
           out == IF Top.w THEN Top.out \o get_printable(vals[1]) \o " " ELSE Top.out
           vals2 == IF Top.w THEN Tail(vals) ELSE vals
       IN IF Top.i <= Len(args)
          THEN Goto(<<ExprFrame(args[Top.i]),
                      [Top EXCEPT !.i = Top.i + 1, !.out = out, !.w = TRUE]>> \o Rest,
                    vals2, env, ret, output, [op |-> "print_arg"])
          ELSE Goto(Rest, <<NIL_VALUE>> \o vals2, env, ret, Append(output, out),
                    [op |-> "print", line |-> out, node |-> Top.node])

\* __call_print(call_ast): evaluate the arguments in order, append each
\* one's display text, give the line to output and return nil.
call_print ==
    /\ status = "running"
    /\ Top.k = "print"
    /\ LET args == Top.node.args
           out == IF Top.w THEN Top.out \o get_printable(vals[1]) ELSE Top.out
           vals2 == IF Top.w THEN Tail(vals) ELSE vals
       IN IF Top.i <= Len(args)
          THEN Goto(<<ExprFrame(args[Top.i]),
                      [Top EXCEPT !.i = Top.i + 1, !.out = out, !.w = TRUE]>> \o Rest,
                    vals2, env, ret, output, [op |-> "print_arg"])
          ELSE Goto(Rest, <<NIL_VALUE>> \o vals2, env, ret, Append(output, out),
                    [op |-> "print", line |-> out, node |-> Top.node])

\* __assign(assign_ast): evaluate the expression, set the variable, and
\* mirror the write when the name is an alias of the active call.
assign ==
    /\ status = "running"
    /\ Top.k = "assign"
    /\ IF Top.ph = "eval"
       THEN Goto(<<ExprFrame(Top.node.expression), [Top EXCEPT !.ph = "set"]>> \o Rest,
                 vals, env, ret, output, [op |-> "assign_eval"])
       ELSE LET var_name == Top.node.name
                value_obj == vals[1]
                e2 == env_set(env, var_name, value_obj)
                e3 == IF get_ref(e2, var_name) # NoName
                      THEN ref_set(e2, var_name, value_obj) ELSE e2
            IN Goto(Rest, Tail(vals), e3, ret, output,
                    [op |-> "assign", name |-> var_name, value |-> value_obj])

\* The condition rule of if and while: an Int counts as true when non-zero,
\* a Bool is used as is, any other type is a TYPE_ERROR (a parser node has
\* no type()).
condition(result) ==
    IF IsElement(result) THEN Fault("AttributeError")
    ELSE IF result.type = "int" THEN Ok(value_of(result) # 0)
    ELSE IF result.type # "bool" THEN error("TYPE_ERROR")
    ELSE Ok(value_of(result))

\* __do_if(if_ast)
do_if ==
    /\ status = "running"
    /\ Top.k = "if"
    /\ CASE Top.ph = "cond" ->
              Goto(<<ExprFrame(Top.node.condition), [Top EXCEPT !.ph = "test"]>> \o Rest,
                   vals, env, ret, output, [op |-> "if_cond"])
         [] Top.ph = "test" ->
              LET result == condition(vals[1])
                  ev == [op |-> "if", cond |-> vals[1], result |-> result]
                  branch == [Top EXCEPT !.ph = "branch"]
              IN IF ~result.ok THEN Raise(result, ev)
                 ELSE IF result.val
                 THEN Goto(<<StmtsFrame(Top.node.statements), branch>> \o Rest,
                           Tail(vals), env_push(env), ret, output, ev)
                 ELSE IF Has(Top.node, "else_statements")
                 THEN Goto(<<StmtsFrame(Top.node.else_statements), branch>> \o Rest,
                           Tail(vals), env_push(env), ret, output, ev)
                 ELSE Goto(Rest, Tail(vals), env, CONTINUE(NIL_VALUE), output, ev)
         [] Top.ph = "branch" ->
              Goto(Rest, vals, env, ret, output, [op |-> "if_end"])

\* A plausible slip: the loop does not look at the status its body returned.
do_while_ignores_return ==
    /\ status = "running"
    /\ Top.k = "while"
    /\ CASE Top.ph = "cond" ->
              Goto(<<ExprFrame(Top.node.condition), [Top EXCEPT !.ph = "test"]>> \o Rest,
                   vals, env, ret, output, [op |-> "while_cond"])
         [] Top.ph = "test" ->
              LET run_while == condition(vals[1])
                  ev == [op |-> "while", cond |-> vals[1], result |-> run_while]
              IN IF ~run_while.ok THEN Raise(run_while, ev)
                 ELSE IF run_while.val
                 THEN Goto(<<StmtsFrame(Top.node.statements), [Top EXCEPT !.ph = "body"]>>
                               \o Rest,
                           Tail(vals), env_push(env), ret, output, ev)
                 ELSE Goto(Rest, Tail(vals), env, CONTINUE(NIL_VALUE), output, ev)
         [] Top.ph = "body" ->
              Goto(<<[Top EXCEPT !.ph = "cond"]>> \o Rest, vals, env, ret, output,
                   [op |-> "while_again"])

\* A plausible slip: the loop tests run_while only at its head, where it is
\* still the previous truth value, so a false condition does not end it.
do_while_never_exits ==
    /\ status = "running"
    /\ Top.k = "while"
    /\ CASE Top.ph = "cond" ->
              Goto(<<ExprFrame(Top.node.condition), [Top EXCEPT !.ph = "test"]>> \o Rest,
                   vals, env, ret, output, [op |-> "while_cond"])
         [] Top.ph = "test" ->
              LET run_while == condition(vals[1])
                  ev == [op |-> "while", cond |-> vals[1], result |-> run_while]
              IN IF ~run_while.ok THEN Raise(run_while, ev)
                 ELSE IF run_while.val
                 THEN Goto(<<StmtsFrame(Top.node.statements), [Top EXCEPT !.ph = "body"]>>
                               \o Rest,
                           Tail(vals), env_push(env), ret, output, ev)
                 ELSE Goto(<<[Top EXCEPT !.ph = "cond"]>> \o Rest, Tail(vals), env, NoRet,
                           output, ev)
         [] Top.ph = "body" ->
              IF ret.status = "RETURN"
              THEN Goto(Rest, vals, env, ret, output, [op |-> "while_return"])
              ELSE Goto(<<[Top EXCEPT !.ph = "cond"]>> \o Rest, vals, env, NoRet, output,
                        [op |-> "while_again"])

\* __do_while(while_ast)
do_while ==
    /\ status = "running"
    /\ Top.k = "while"
    /\ CASE Top.ph = "cond" ->
              Goto(<<ExprFrame(Top.node.condition), [Top EXCEPT !.ph = "test"]>> \o Rest,
                   vals, env, ret, output, [op |-> "while_cond"])
         [] Top.ph = "test" ->
              LET run_while == condition(vals[1])
                  ev == [op |-> "while", cond |-> vals[1], result |-> run_while]
              IN IF ~run_while.ok THEN Raise(run_while, ev)
                 ELSE IF run_while.val
                 THEN Goto(<<StmtsFrame(Top.node.statements), [Top EXCEPT !.ph = "body"]>>
                               \o Rest,
                           Tail(vals), env_push(env), ret, output, ev)
                 ELSE Goto(Rest, Tail(vals), env, CONTINUE(NIL_VALUE), output, ev)
         [] Top.ph = "body" ->
              IF ret.status = "RETURN"
              THEN Goto(Rest, vals, env, ret, output, [op |-> "while_return"])
              ELSE Goto(<<[Top EXCEPT !.ph = "cond"]>> \o Rest, vals, env, NoRet, output,
                        [op |-> "while_again"])

\* __do_return(return_ast)
do_return ==
    /\ status = "running"
    /\ Top.k = "return"
    /\ IF ~Has(Top.node, "expression")
       THEN Goto(Rest, vals, env, RETURN(NIL_VALUE), output,
                 [op |-> "return", value |-> NIL_VALUE])
       ELSE IF Top.ph = "eval"
       THEN Goto(<<ExprFrame(Top.node.expression), [Top EXCEPT !.ph = "value"]>> \o Rest,
                 vals, env, ret, output, [op |-> "return_eval"])
       ELSE Goto(Rest, Tail(vals), env, RETURN(deepcopy(vals[1])), output,
                 [op |-> "return", value |-> vals[1]])

\* ---------------------------------------------------------------- programs
\* The programs run: each is the tree brewparse returns for the source text
\* quoted above it.
Ints == 0..MaxInt

\* func f(ref a) { a = a + 1; }  func main() { x = n; f(x); print(x); }
RefIncr(n) == Program(<<
    Func("f", <<RefArg("a")>>, <<Assign("a", Bin("+", Var("a"), IntLit(1)))>>),
    Func("main", <<>>, <<Assign("x", IntLit(n)), Call("f", <<Var("x")>>),
                         Call("print", <<Var("x")>>)>>) >>)

\* func f(a) { a = a + 1; }  func main() { x = n; f(x); print(x); }
ValIncr(n) == Program(<<
    Func("f", <<Arg("a")>>, <<Assign("a", Bin("+", Var("a"), IntLit(1)))>>),
    Func("main", <<>>, <<Assign("x", IntLit(n)), Call("f", <<Var("x")>>),
                         Call("print", <<Var("x")>>)>>) >>)

\* The program of main() in interpreterv3.py, for x = n and delta = d:
\* func foo(ref x, delta) { x = x + delta; delta = 0; }
\* func main() { x = n; delta = d; foo(x, delta); print(x); print(delta); }
MainProgram(n, d) == Program(<<
    Func("foo", <<RefArg("x"), Arg("delta")>>,
         <<Assign("x", Bin("+", Var("x"), Var("delta"))), Assign("delta", IntLit(0))>>),
    Func("main", <<>>, <<Assign("x", IntLit(n)), Assign("delta", IntLit(d)),
                         Call("foo", <<Var("x"), Var("delta")>>),
                         Call("print", <<Var("x")>>), Call("print", <<Var("delta")>>)>>) >>)

\* func g(ref a, b) { if (b > 0) { a = b; b = b - 1; a = a + b; } }
\* func main() { x = n; y = d; g(x, y); print(x, y); }
RefInBlock(n, d) == Program(<<
    Func("g", <<RefArg("a"), Arg("b")>>,
         <<If(Bin(">", Var("b"), IntLit(0)),
              <<Assign("a", Var("b")), Assign("b", Bin("-", Var("b"), IntLit(1))),
                Assign("a", Bin("+", Var("a"), Var("b")))>>)>>),
    Func("main", <<>>, <<Assign("x", IntLit(n)), Assign("y", IntLit(d)),
                         Call("g", <<Var("x"), Var("y")>>),
                         Call("print", <<Var("x"), Var("y")>>)>>) >>)

\* k literal arguments 1, 2, .., k
Literals(k) == [i \in 1..k |-> IntLit(i)]

\* func foo() { print("foo0"); }  func foo(a) { print("foo1"); }
\* func foo(a, b) { print("foo2"); }  func main() { foo(1, .., k); }
Overload(k) == Program(<<
    Func("foo", <<>>, <<Call("print", <<StrLit("foo0")>>)>>),
    Func("foo", <<Arg("a")>>, <<Call("print", <<StrLit("foo1")>>)>>),
    Func("foo", <<Arg("a"), Arg("b")>>, <<Call("print", <<StrLit("foo2")>>)>>),
    Func("main", <<>>, <<Call("foo", Literals(k))>>) >>)

\* The same with the call as an expression: func main() { r = foo(1, .., k); }
OverloadExpr(k) == Program(<<
    Func("foo", <<Arg("a"), Arg("b")>>, <<Return(IntLit(2))>>),
    Func("foo", <<>>, <<Return(IntLit(0))>>),
    Func("main", <<>>, <<Assign("r", Call("foo", Literals(k))), Call("print", <<Var("r")>>)>>) >>)

\* func one(a) { return a; }  func main() { one(1, .., k); }
OneArity(k) == Program(<<
    Func("one", <<Arg("a")>>, <<Return(Var("a"))>>),
    Func("main", <<>>, <<Call("one", Literals(k))>>) >>)

\* func main() { bar(1, .., k); }     and     func main() { r = bar(1, .., k); }
Undeclared(k, as_expr) == Program(<<
    Func("main", <<>>, <<IF as_expr THEN Assign("r", Call("bar", Literals(k)))
                         ELSE Call("bar", Literals(k))>>) >>)

\* func main() { x = n; x(); }
CallInt(n) == Program(<<
    Func("main", <<>>, <<Assign("x", IntLit(n)), Call("x", <<>>)>>) >>)

\* func foo() { c = c + 1; print(c); return c * 2; }
\* func main() { c = n; r1 = foo(); c = n; x = foo; r2 = x(); print(r1, r2, c); }
FirstClass(n) == Program(<<
    Func("foo", <<>>, <<Assign("c", Bin("+", Var("c"), IntLit(1))), Call("print", <<Var("c")>>),
                        Return(Bin("*", Var("c"), IntLit(2)))>>),
    Func("main", <<>>, <<Assign("c", IntLit(n)), Assign("r1", Call("foo", <<>>)),
                         Assign("c", IntLit(n)), Assign("x", Var("foo")),
                         Assign("r2", Call("x", <<>>)),
                         Call("print", <<Var("r1"), Var("r2"), Var("c")>>)>>) >>)

\* func foo() { print("hi"); }  func main() { foo(); }       (direct)
\* func foo() { print("hi"); }  func main() { x = foo; x(); } (through x)
FirstClassStmt(direct) == Program(<<
    Func("foo", <<>>, <<Call("print", <<StrLit("hi")>>)>>),
    Func("main", <<>>, IF direct THEN <<Call("foo", <<>>)>>
                       ELSE <<Assign("x", Var("foo")), Call("x", <<>>)>>) >>)

\* func f(n) { if (n >= 0) { while (true) { if (n > 0) { return n; } else { return; }
\*   print("in loop"); } print("after loop"); } print("after if"); return 0 - 1; }
\* func main() { r = f(n); print(nil == r); print("back"); }
ReturnNested(n) == Program(<<
    Func("f", <<Arg("n")>>,
         <<If(Bin(">=", Var("n"), IntLit(0)),
              <<While(BoolLit(TRUE),
                      <<IfElse(Bin(">", Var("n"), IntLit(0)), <<Return(Var("n"))>>, <<ReturnNil>>),
                        Call("print", <<StrLit("in loop")>>)>>),
                Call("print", <<StrLit("after loop")>>)>>),
           Call("print", <<StrLit("after if")>>),
           Return(Neg(IntLit(1)))>>),
    Func("main", <<>>, <<Assign("r", Call("f", <<IntLit(n)>>)),
                         Call("print", <<Bin("==", NilLit, Var("r"))>>),
                         Call("print", <<StrLit("back")>>)>>) >>)

\* func main() { i = 0; while (i < n) { i = i + 1; if (i == d) { return; } print(i); } print("end"); }
ReturnFromMain(n, d) == Program(<<
    Func("main", <<>>,
         <<Assign("i", IntLit(0)),
           While(Bin("<", Var("i"), IntLit(n)),
                 <<Assign("i", Bin("+", Var("i"), IntLit(1))),
                   If(Bin("<", Var("i"), IntLit(d)), <<Call("print", <<Var("i")>>)>>),
                   If(Bin(">=", Var("i"), IntLit(d)), <<ReturnNil>>)>>),
           Call("print", <<StrLit("end")>>)>>) >>)

\* The arguments print is called with.
PrintArgs == {<<>>, <<StrLit("a"), IntLit(1), BoolLit(TRUE)>>}
    \cup {<<IntLit(n)>> : n \in Ints}
    \cup {<<StrLit("x"), Neg(IntLit(n)), BoolLit(FALSE), StrLit("")>> : n \in Ints}
    \cup {<<Var("v"), Bin("+", Var("v"), IntLit(n)), Var("s")>> : n \in Ints}

\* func main() { v = 1; s = "s"; print(<args>); print(<args>); print("z"); }
Printing(args) == Program(<<
    Func("main", <<>>, <<Assign("v", IntLit(1)), Assign("s", StrLit("s")),
                         Call("print", args), Assign("r", Call("print", args)),
                         Call("print", <<StrLit("z")>>)>>) >>)

\* func main() { while (true) { x = 1; } print("never"); }
Forever == Program(<<
    Func("main", <<>>, <<While(BoolLit(TRUE), <<Assign("x", IntLit(1))>>),
                         Call("print", <<StrLit("never")>>)>>) >>)

\* func main() { i = n; while (i) { i = i - 1; } print(i); }
CountDown(n) == Program(<<
    Func("main", <<>>, <<Assign("i", IntLit(n)),
                         While(Var("i"), <<Assign("i", Bin("-", Var("i"), IntLit(1)))>>),
                         Call("print", <<Var("i")>>)>>) >>)

\* func f(n) { if (n == 0) { return 0; } return 1 + f(n - 1); }  func main() { print(f(n)); }
\* with the truthiness equality of Int == Int, f(n) recurses for ever on n > 0
Recursive(n) == Program(<<
    Func("f", <<Arg("n")>>, <<If(Bin("<=", Var("n"), IntLit(0)), <<Return(IntLit(0))>>),
                              Return(Bin("+", IntLit(1), Call("f", <<Bin("-", Var("n"), IntLit(1))>>)))>>),
    Func("main", <<>>, <<Call("print", <<Call("f", <<IntLit(n)>>)>>)>>) >>)

\* func f() { f(); }  func main() { f(); }
Runaway == Program(<<
    Func("f", <<>>, <<Call("f", <<>>)>>),
    Func("main", <<>>, <<Call("f", <<>>)>>) >>)

\* func notmain() { }
NoMain == Program(<< Func("notmain", <<>>, <<>>) >>)

\* The operands of the operator programs: Int literals, negated Int
\* literals and Bool literals.
Operands == {IntLit(n) : n \in Ints} \cup {Neg(IntLit(n)) : n \in Ints \ {0}}
            \cup {BoolLit(b) : b \in BOOLEAN}

\* func main() { r = a op b; }
Operator(op, a, b) == Program(<< Func("main", <<>>, <<Assign("r", Bin(op, a, b))>>) >>)

\* func f(a, b) { print(b); }  func main() { a = n; f(1, a); }
Shadowed(n) == Program(<<
    Func("f", <<Arg("a"), Arg("b")>>, <<Call("print", <<Var("b")>>)>>),
    Func("main", <<>>, <<Assign("a", IntLit(n)), Call("f", <<IntLit(1), Var("a")>>)>>) >>)

\* func g() { v = n; w = 1; }  func main() { v = 0; g(); print(v); }
CalleeAssigns(n) == Program(<<
    Func("g", <<>>, <<Assign("v", IntLit(n)), Assign("w", IntLit(1))>>),
    Func("main", <<>>, <<Assign("v", IntLit(0)), Call("g", <<>>), Call("print", <<Var("v")>>)>>) >>)

\* func f(ref a) { a = a + 1; }  func main() { x = n; f(<actual>); print(x); }
\* for the actuals n (a literal) and x + 0 (an operator expression)
RefNonVar(n, literal) == Program(<<
    Func("f", <<RefArg("a")>>, <<Assign("a", Bin("+", Var("a"), IntLit(1)))>>),
    Func("main", <<>>, <<Assign("x", IntLit(n)),
                         Call("f", <<IF literal THEN IntLit(n) ELSE Bin("+", Var("x"), IntLit(0))>>),
                         Call("print", <<Var("x")>>)>>) >>)

\* func g() { print("g"); return 1; }  func f(ref a) { a = n; }
\* func main() { f(g()); x = g; x(); }
RefCallArg(n) == Program(<<
    Func("g", <<>>, <<Call("print", <<StrLit("g")>>), Return(IntLit(1))>>),
    Func("f", <<RefArg("a")>>, <<Assign("a", IntLit(n))>>),
    Func("main", <<>>, <<Call("f", <<Call("g", <<>>)>>), Assign("x", Var("g")),
                         Call("x", <<>>)>>) >>)

\* func foo() { print("foo0"); }  func foo(a) { print("foo1"); }
\* func foo(a, b) { print("foo2"); }  func main() { x = foo; x(1, .., k); }
OverloadVar(k) == Program(<<
    Func("foo", <<>>, <<Call("print", <<StrLit("foo0")>>)>>),
    Func("foo", <<Arg("a")>>, <<Call("print", <<StrLit("foo1")>>)>>),
    Func("foo", <<Arg("a"), Arg("b")>>, <<Call("print", <<StrLit("foo2")>>)>>),
    Func("main", <<>>, <<Assign("x", Var("foo")), Call("x", Literals(k))>>) >>)

\* The conditions tried: Ints, Bools, Strings, nil, a lambda, and the name
\* of a top-level function.
Conditions == {IntLit(n) : n \in Ints} \cup {Neg(IntLit(1))}
              \cup {BoolLit(b) : b \in BOOLEAN}
              \cup {StrLit("s"), StrLit(""), NilLit, Lambda(<<>>, <<>>), Var("main")}

\* func main() { if (c) { print("then"); } else { print("else"); } print("end"); }
CondIf(c) == Program(<<
    Func("main", <<>>, <<IfElse(c, <<Call("print", <<StrLit("then")>>)>>,
                                   <<Call("print", <<StrLit("else")>>)>>),
                         Call("print", <<StrLit("end")>>)>>) >>)

\* func main() { while (c) { print("body"); return; } print("end"); }
CondWhile(c) == Program(<<
    Func("main", <<>>, <<While(c, <<Call("print", <<StrLit("body")>>), ReturnNil>>),
                         Call("print", <<StrLit("end")>>)>>) >>)

\* func f(ref a) { a = 1; print("f"); return true; }
\* func main() { x = 0; r = b op f(x); print(r, x); }
ShortCircuit(op, b) == Program(<<
    Func("f", <<RefArg("a")>>, <<Assign("a", IntLit(1)), Call("print", <<StrLit("f")>>),
                                 Return(BoolLit(TRUE))>>),
    Func("main", <<>>, <<Assign("x", IntLit(0)),
                         Assign("r", Bin(op, BoolLit(b), Call("f", <<Var("x")>>))),
                         Call("print", <<Var("r"), Var("x")>>)>>) >>)

\* Operands of every type: an Int, the Bools, Strings, nil, a lambda and
\* the name of a top-level function.
TypedOperands == {IntLit(1), BoolLit(TRUE), BoolLit(FALSE), StrLit("a"), StrLit("b"), NilLit,
                  Lambda(<<>>, <<>>), Var("main")}

\* The operator programs over them.  Two lambda expressions make two
\* function objects, which == and != tell apart by identity; that pair is
\* left out.
TypedOperators ==
    {Operator(op, a, b) : op \in BIN_OPS, a \in TypedOperands, b \in TypedOperands}
    \ {Operator(op, Lambda(<<>>, <<>>), Lambda(<<>>, <<>>)) : op \in {"==", "!="}}

\* func main() { print(a == b, a != b); }
EqualAndUnequal(a, b) == Program(<<
    Func("main", <<>>, <<Call("print", <<Bin("==", a, b), Bin("!=", a, b)>>)>>) >>)

Programs ==
    {RefIncr(n) : n \in Ints} \cup {ValIncr(n) : n \in Ints}
    \cup {MainProgram(n, d) : n \in Ints, d \in Ints}
    \cup {RefInBlock(n, d) : n \in Ints, d \in Ints}
    \cup {Overload(k) : k \in 0..3} \cup {OverloadExpr(k) : k \in 0..3}
    \cup {OneArity(k) : k \in 0..2}
    \cup {Undeclared(k, b) : k \in 0..1, b \in BOOLEAN}
    \cup {CallInt(n) : n \in Ints}
    \cup {FirstClass(n) : n \in Ints} \cup {FirstClassStmt(b) : b \in BOOLEAN}
    \cup {ReturnNested(n) : n \in Ints}
    \cup {ReturnFromMain(n, d) : n \in Ints, d \in Ints}
    \cup {Printing(args) : args \in PrintArgs}
    \cup {Forever, Runaway, NoMain}
    \cup {CountDown(n) : n \in Ints} \cup {Recursive(n) : n \in Ints}
    \cup {Operator(op, a, b) : op \in BIN_OPS, a \in Operands, b \in Operands}
    \cup {Shadowed(n) : n \in Ints} \cup {CalleeAssigns(n) : n \in Ints}
    \cup {RefNonVar(n, b) : n \in Ints, b \in BOOLEAN} \cup {RefCallArg(n) : n \in Ints}
    \cup {OverloadVar(k) : k \in 0..2}
    \cup {CondIf(c) : c \in Conditions} \cup {CondWhile(c) : c \in Conditions}
    \cup {ShortCircuit(op, b) : op \in {"&&", "||"}, b \in BOOLEAN}
    \cup TypedOperators
    \cup {EqualAndUnequal(a, b) : a \in Operands, b \in Operands}

\* ------------------------------------------------------------ specification
\* An Interpreter has been constructed and is handed one of the programs.
Init ==
    /\ program \in Programs
    /\ status = "init"
    /\ error_type = "none"
    /\ func_name_to_ast = <<>>
    /\ env = EnvironmentManager
    /\ ctl = <<>>
    /\ vals = <<>>
    /\ ret = NoRet
    /\ output = <<>>
    /\ event = [op |-> "init"]

Next ==
    \/ run
    \/ run_statements
    \/ eval_expr
    \/ eval_op
    \/ eval_unary
    \/ call_func
    \/ call_print
    \/ assign
    \/ do_if
    \/ do_while
    \/ do_return

Spec == Init /\ [][Next]_vars

\* The interpreter is one sequential program: a step that can be taken is
\* taken.
FairSpec == Spec /\ WF_vars(Next)

\* ------------------------------------------------------------------ claims
Final == status \in {"done", "error", "fault"}

Min(S) == CHOOSE x \in S : \A y \in S : x <= y

\* The innermost active user-function call, and whether its body is running.
CallFrames == {i \in 1..Len(ctl) : ctl[i].k = "call"}
InnerCall == ctl[Min(CallFrames)]
InBody == status = "running" /\ CallFrames # {} /\ InnerCall.ph = "body"

\* The index of the innermost call's parameter frame; the caller's frames
\* are the ones below it.
ParamFrame == env.refs[Len(env.refs)].base
CallerDefines(e, v) == Defining(e, v, ParamFrame - 1) # {}
CallerValue(e, v) == e.environment[Max(Defining(e, v, ParamFrame - 1))][v]

\* The positions of the innermost call's by-reference formals whose actual
\* argument is a bare variable that the caller has bound.
RefPairs ==
    {j \in 1..Len(InnerCall.func.args) :
        /\ InnerCall.func.args[j].elem_type = "refarg"
        /\ InnerCall.node.args[j].elem_type = "var"
        /\ CallerDefines(env, InnerCall.node.args[j].name)}

\* The positions of the innermost call's by-value formals.
ValueFormals ==
    {j \in 1..Len(InnerCall.func.args) : InnerCall.func.args[j].elem_type = "arg"}

\* C1: an assignment to a by-reference formal whose actual argument is a
\* bare variable v of the caller is mirrored onto v: right after the
\* assignment v holds the assigned value, when the body has finished v holds
\* the formal's value, and f(ref a) { a = a + 1; } called as f(x) with x = n
\* leaves x = n + 1.
C1_RefFormalMirrored ==
    /\ (InBody /\ event.op = "assign")
         => \A j \in RefPairs :
               InnerCall.func.args[j].name = event.name
               => CallerValue(env, InnerCall.node.args[j].name) = event.value
    /\ (InBody /\ Top.k = "call")
         => \A j \in RefPairs :
               CallerValue(env, InnerCall.node.args[j].name)
                 = env.environment[ParamFrame][InnerCall.func.args[j].name]
    /\ \A n \in Ints :
         (Final /\ program = RefIncr(n)) => (status = "done" /\ output = <<ToString(n + 1)>>)

\* f(x) with x = 1 has returned and x is 2 in the caller.
C1_Witness ==
    /\ program = RefIncr(1)
    /\ event.op = "call_return"
    /\ event.name = "f"
    /\ env_get(env, "x") = Value("int", 2)

\* C2: an assignment to a by-value formal inside the callee leaves every
\* frame of the caller as it was, also when the caller's variable has the
\* formal's name; the program of main() prints delta unchanged, and the
\* by-value f(a) { a = a + 1; } leaves x at n.
C2_ValueFormalFrame ==
    [][ /\ (InBody /\ Top.k = "assign" /\ Top.ph = "set"
            /\ \E j \in ValueFormals : InnerCall.func.args[j].name = Top.node.name)
          => \A i \in 1..(ParamFrame - 1) : env'.environment[i] = env.environment[i]
        /\ \A n \in Ints, d \in Ints :
             (status' = "done" /\ program = MainProgram(n, d))
             => output' = <<ToString(n + d), ToString(d)>>
        /\ \A n \in Ints :
             (status' = "done" /\ program = ValIncr(n)) => output' = <<ToString(n)>>
      ]_vars

\* foo has assigned delta = 0 and the caller's delta is still 1.
C2_Witness ==
    /\ InBody
    /\ InnerCall.node.name = "foo"
    /\ event.op = "assign"
    /\ event.name = "delta"
    /\ env.environment[ParamFrame]["delta"] = Value("int", 0)
    /\ CallerValue(env, "delta") = Value("int", 1)

\* The definitions of a name with n parameters in the program text.
Declared(name, n) ==
    {i \in 1..Len(program.functions) :
        program.functions[i].name = name /\ Len(program.functions[i].args) = n}
Arities(name) ==
    {Len(program.functions[i].args) :
        i \in {k \in 1..Len(program.functions) : program.functions[k].name = name}}

\* C3: a direct call of a top-level name that has definitions with several
\* parameter counts, with n arguments where the name has a definition with
\* n parameters, runs that definition (and no error is raised for it).
C3_OverloadByArity ==
    /\ (event.op = "call" /\ Cardinality(Arities(event.name)) > 1
        /\ event.nargs \in Arities(event.name))
         => /\ status = "running"
            /\ InnerCall.node.name = event.name
            /\ InnerCall.func \in {program.functions[i] : i \in Declared(event.name, event.nargs)}
            /\ event.nargs = 0 => Top = StmtsFrame(InnerCall.func.statements)
    /\ \A k \in 0..2 :
         (Final /\ program = Overload(k))
         => (status = "done" /\ output = <<"foo" \o ToString(k)>>)

\* foo(1, 2) has resolved to the two-parameter definition of foo.
C3_Witness ==
    /\ program = Overload(2)
    /\ event.op = "call"
    /\ event.nargs = 2
    /\ status = "running"
    /\ InnerCall.func = program.functions[3]

\* The call that has just been tried names neither a declared function nor
\* a bound variable, or a declared function with no such parameter count.
Unresolvable ==
    /\ event.op = "call"
    /\ \/ event.name \notin DOMAIN func_name_to_ast /\ env_get(env, event.name) = None
       \/ event.name \in DOMAIN func_name_to_ast
          /\ event.nargs \notin DOMAIN func_name_to_ast[event.name]

\* C4: a call whose name is neither a declared function nor a bound
\* variable, or whose argument count matches no declared arity, aborts the
\* run with NAME_ERROR.
C4_UnresolvedCallIsNameError ==
    Unresolvable => (status = "error" /\ error_type = "NAME_ERROR")

\* C5: for a zero-argument top-level foo, the call through a variable
\* (x = foo; x()) does what the direct call foo() does: it resolves to foo's
\* definition, raises no error, and from the same caller state it gives the
\* same output line, the same return value and the same caller variables.
C5_FirstClassCall ==
    /\ \A n \in Ints :
         program = FirstClass(n)
         => /\ ~(status \in {"error", "fault"})
            /\ (event.op = "call" /\ event.name = "x")
                 => event.resolved = Ok(program.functions[1])
            /\ (event.op = "print" /\ Len(output) = 3)
                 => /\ output[2] = output[1]
                    /\ env_get(env, "r2") = env_get(env, "r1")
                    /\ get_printable(env_get(env, "c")) = output[1]
    /\ \A direct \in BOOLEAN :
         (Final /\ program = FirstClassStmt(direct))
         => (status = "done" /\ output = <<"hi">>)

\* x() has returned what foo() returned for c = 1, after the same line.
C5_Witness ==
    /\ program = FirstClass(1)
    /\ event.op = "call_return"
    /\ event.name = "x"
    /\ event.value = Value("int", 4)
    /\ env_get(env, "r1") = Value("int", 4)
    /\ output = <<"2", "2">>

\* The steps that only hand a pending RETURN to the caller.
Unwinding == {"statements_return", "if_end", "while_return", "call_return", "run_end"}

\* C6: once a return statement has executed, at any depth of if branches
\* and while bodies, the function call runs no further statement and
\* evaluates no condition: every step up to the call's return only hands
\* the RETURN on, unchanged, and the call yields the value of the return
\* expression, or nil when there is none.
C6_ReturnUnwinds ==
    [][ /\ (status = "running" /\ Top.k = "return" /\ event'.op = "return")
          => ret' = RETURN(IF Has(Top.node, "expression") THEN vals[1] ELSE NIL_VALUE)
        /\ (status = "running" /\ ret.status = "RETURN")
          => /\ event'.op \in Unwinding
             /\ output' = output
             /\ event'.op \notin {"call_return", "run_end"} => ret' = ret
             /\ event'.op = "call_return" => vals' = <<ret.val>> \o vals
        /\ \A n \in Ints :
             (status' = "done" /\ program = ReturnNested(n))
             => output' = <<IF n > 0 THEN "false" ELSE "true", "back">>
      ]_vars

\* return n, inside an if inside a while inside an if, is pending at the
\* while statement.
C6_Witness ==
    /\ program = ReturnNested(1)
    /\ status = "running"
    /\ Top.k = "while"
    /\ ret = RETURN(Value("int", 1))

\* An expression without calls, and its value in an environment.
RECURSIVE IsPure(_)
IsPure(e) ==
    CASE e.elem_type \in {"int", "string", "bool", "nil", "var"} -> TRUE
      [] e.elem_type \in {"neg", "!"} -> IsPure(e.op1)
      [] e.elem_type \in BIN_OPS -> IsPure(e.op1) /\ IsPure(e.op2)
      [] OTHER -> FALSE

RECURSIVE PureValue(_, _)
PureValue(e, en) ==
    CASE e.elem_type \in {"int", "string", "bool"} -> e.val
      [] e.elem_type = "nil" -> NIL_VALUE
      [] e.elem_type = "var" -> env_get(en, e.name)
      [] e.elem_type = "neg" -> Value("int", 0 - value_of(PureValue(e.op1, en)))
      [] e.elem_type = "!" -> Value("bool", ~Truthy(PureValue(e.op1, en)))
      [] e.elem_type \in BIN_OPS ->
           apply_op(e.elem_type, PureValue(e.op1, en), PureValue(e.op2, en)).val

\* The display texts of the arguments from the i-th on, one after another.
RECURSIVE DisplayTexts(_, _, _)
DisplayTexts(args, i, en) ==
    IF i > Len(args) THEN ""
    ELSE get_printable(PureValue(args[i], en)) \o DisplayTexts(args, i + 1, en)

\* C7: every executed print call appends exactly one line to the output,
\* the display texts of its arguments in argument order with nothing
\* between them, and returns nil; nothing else changes the output, so the
\* lines are in the order of the print calls.
C7_PrintOneLine ==
    [][ /\ (status = "running" /\ Top.k = "print" /\ event'.op = "print")
          => /\ output' = Append(output, event'.line)
             /\ vals'[1] = NIL_VALUE
             /\ (\A i \in 1..Len(Top.node.args) : IsPure(Top.node.args[i]))
                  => event'.line = DisplayTexts(Top.node.args, 1, env)
        /\ output' # output
          => (status = "running" /\ Top.k = "print" /\ event'.op = "print")
      ]_vars

\* print("a", 1, true) has put the line a1true.
C7_Witness ==
    /\ event.op = "print"
    /\ event.node.args = <<StrLit("a"), IntLit(1), BoolLit(TRUE)>>
    /\ output = <<"a1true">>
    /\ vals[1] = NIL_VALUE

\* The last step found a while condition true.
WhileTaken == event.op = "while" /\ event.result.ok /\ event.result.val

\* C8, as stated: every run terminates.
C8_RunTerminates == <>Final

\* C8, amended: a run terminates unless a while condition evaluates to true
\* again and again for ever.
C8_TerminatesUnlessLoopsForever == ([]<>WhileTaken) \/ <>Final

\* A run whose loop ran twice has terminated.
C8_Witness ==
    /\ program = CountDown(2)
    /\ status = "done"
    /\ output = <<"0">>

\* The last step applied the binary operator oper to two Values whose left
\* operand has type t.
Applied(oper, t) ==
    /\ event.op = "eval_op"
    /\ event.oper = oper
    /\ ~IsElement(event.left)
    /\ ~IsElement(event.right)
    /\ event.left.type = t

\* C9: for all Int operands a and b, a == b evaluates to Bool true exactly
\* when a and b are both non-zero or both zero, and the run goes on.
C9_IntEqIsTruthiness ==
    (Applied("==", "int") /\ event.right.type = "int")
    => /\ event.result
            = Ok(Value("bool", (value_of(event.left) # 0) = (value_of(event.right) # 0)))
       /\ status = "running"
       /\ vals[1] = event.result.val

\* Two different non-zero Ints have just been found equal.
C9_Witness ==
    /\ Applied("==", "int")
    /\ event.left = Value("int", 2)
    /\ event.right = Value("int", 1)
    /\ vals[1] = Value("bool", TRUE)

\* C10: for every Int n, n / false is Int 0 and n / true is n, and n / 0
\* with an Int zero ends the run in a host fault that is neither NAME_ERROR
\* nor TYPE_ERROR.
C10_IntDivGuard ==
    Applied("/", "int")
    => /\ (event.right.type = "bool" /\ ~value_of(event.right))
            => (event.result = Ok(Value("int", 0)) /\ status = "running"
                /\ vals[1] = Value("int", 0))
       /\ (event.right.type = "bool" /\ value_of(event.right))
            => (event.result = Ok(event.left) /\ status = "running"
                /\ vals[1] = event.left)
       /\ (event.right.type = "int" /\ value_of(event.right) = 0)
            => (~event.result.ok /\ status = "fault"
                /\ error_type \notin {"NAME_ERROR", "TYPE_ERROR"})

\* A non-zero Int has been divided by the Int 0 and the run has ended in
\* the host's division fault.
C10_Witness ==
    /\ Applied("/", "int")
    /\ event.left = Value("int", 2)
    /\ event.right = Value("int", 0)
    /\ status = "fault"
    /\ error_type = "ZeroDivisionError"


\* The scope of the caller of the innermost call: the frames below the
\* call's parameter frame, and the alias frames of the calls around it.
CallerEnv ==
    [environment |-> SubSeq(env.environment, 1, ParamFrame - 1),
     refs |-> SubSeq(env.refs, 1, Len(env.refs) - 1)]

\* An actual argument of the call on top has just been evaluated and is
\* about to be bound to its formal.
Binding == status = "running" /\ Top.k = "call" /\ Top.ph = "bind"

\* C11: every actual argument of a user-function call is evaluated in the
\* caller's scope: the value bound to a formal is the value the argument
\* expression has in the caller's frames, whatever earlier formals of the
\* call are named; func f(a, b) { print(b); } called as f(1, a) with the
\* caller's a = n prints n.
C11_ActualsInCallerScope ==
    /\ (Binding /\ IsPure(Top.node.args[Top.i]))
         => vals[1] = PureValue(Top.node.args[Top.i], CallerEnv)
    /\ \A n \in Ints :
         (Final /\ program = Shadowed(n)) => (status = "done" /\ output = <<ToString(n)>>)

\* The caller-side names the innermost call aliases to its formals.
AliasTargets ==
    LET fr == env.refs[Len(env.refs)]
    IN {fr.alias[a] : a \in DOMAIN fr.alias}

\* The innermost call has pushed its frames and has not returned.
InCall == status = "running" /\ CallFrames # {} /\ InnerCall.ph \in {"bind", "body"}

\* C12: a user-function call changes the caller's variables only through
\* its by-reference formals: no step of the call changes, in a frame of the
\* caller, a variable that is not the target of one of the call's aliases;
\* func g() { v = n; w = 1; } called from main with v = 0 leaves v at 0.
C12_CallerFramesKept ==
    [][ /\ InCall
          => \A i \in 1..(ParamFrame - 1) :
               \A v \in DOMAIN env.environment[i] :
                 v \notin AliasTargets
                 => (/\ v \in DOMAIN env'.environment[i]
                     /\ env'.environment[i][v] = env.environment[i][v])
        /\ \A n \in Ints :
             (status' = "done" /\ program = CalleeAssigns(n)) => output' = <<"0">>
      ]_vars


\* C13: a by-reference formal whose actual argument is not a bare variable
\* (a literal, an operator expression, a call) behaves as pass-by-value: no
\* alias target is registered for it, and assignments to it change no
\* variable of the caller, also not one named like the function called in
\* the argument; f(ref a) { a = a + 1; } called as f(n) or f(x + 0) leaves
\* x at n, and after f(g()) the name g still holds the function g.
C13_NonVariableActualNoAlias ==
    /\ InCall
         => \A j \in 1..Len(InnerCall.func.args) :
              (/\ InnerCall.func.args[j].name \in DOMAIN env.refs[Len(env.refs)].alias
               /\ InnerCall.node.args[j].elem_type # "var")
              => get_ref(env, InnerCall.func.args[j].name) = NoName
    /\ \A n \in Ints, literal \in BOOLEAN :
         (Final /\ program = RefNonVar(n, literal))
         => (status = "done" /\ output = <<ToString(n)>>)
    /\ \A n \in Ints :
         (Final /\ program = RefCallArg(n)) => (status = "done" /\ output = <<"g", "g">>)

\* The statement sequences that are running, and the user-function calls
\* that have pushed their frames.
Sequences == {i \in 1..Len(ctl) : ctl[i].k = "stmts"}
Entered == {i \in CallFrames : ctl[i].ph \in {"bind", "body"}}

\* C14: scope teardown is balanced.  A statement sequence pops the one frame
\* it pushed when it ends, with CONTINUE or with an early RETURN, and a call
\* pops its alias frame and its parameter frame when it returns; so the
\* depths of both stacks are at every moment the numbers of sequences and
\* calls that are active, and a sequence or call that has returned leaves
\* the depths it found.
C14_ScopesBalanced ==
    [][ /\ status' = "running"
          => /\ Len(env'.environment) = 1 + Cardinality(Sequences') + Cardinality(Entered')
             /\ Len(env'.refs) = Cardinality(Entered')
        /\ event'.op \in {"statements_end", "statements_return"}
          => /\ Len(env'.environment) = Len(env.environment) - 1
             /\ env'.refs = env.refs
        /\ event'.op = "call_return"
          => /\ Len(env'.environment) = Len(env.environment) - 1
             /\ Len(env'.refs) = Len(env.refs) - 1
      ]_vars

\* f(1) has returned from inside a while body inside an if branch, and main
\* is back at its own depth: the global frame and its statement frame.
C14_Witness ==
    /\ program = ReturnNested(1)
    /\ event.op = "call_return"
    /\ event.value = Value("int", 1)
    /\ Len(env.environment) = 2
    /\ env.refs = <<>>


\* C15: a call through a variable that holds a top-level function with
\* several arities resolves through that function's arity table: with n
\* arguments it runs the definition that declares n parameters; after
\* x = foo, x(1, .., k) prints fook.
C15_VariableCallByArity ==
    /\ LET held == env_get(env, event.name)
       IN (/\ event.op = "call"
           /\ event.name \notin DOMAIN func_name_to_ast
           /\ IsElement(held)
           /\ Cardinality(DOMAIN func_name_to_ast[held.name]) > 1
           /\ event.nargs \in DOMAIN func_name_to_ast[held.name])
          => event.resolved = Ok(func_name_to_ast[held.name][event.nargs])
    /\ \A k \in 0..2 :
         (Final /\ program = OverloadVar(k))
         => (status = "done" /\ output = <<"foo" \o ToString(k)>>)

\* The type of a condition or operand: a definition node bound to a
\* top-level name is a function.
TypeOf(x) == IF IsElement(x) THEN "func" ELSE x.type

\* C16: for if and for while, an Int condition counts as true exactly when
\* it is non-zero, a Bool condition is used as is, and a condition of any
\* other type (String, Nil, function) aborts the run with TYPE_ERROR before
\* any statement of the body or of a branch has run.
C16_ConditionRule ==
    /\ event.op \in {"if", "while"}
         => CASE TypeOf(event.cond) = "int" -> event.result = Ok(value_of(event.cond) # 0)
              [] TypeOf(event.cond) = "bool" -> event.result = Ok(value_of(event.cond))
              [] OTHER -> /\ event.result = error("TYPE_ERROR")
                          /\ status = "error"
                          /\ error_type = "TYPE_ERROR"
    /\ \A c \in Conditions :
         (Final /\ program \in {CondIf(c), CondWhile(c)} /\ c.elem_type \notin {"int", "neg", "bool"})
         => (status = "error" /\ error_type = "TYPE_ERROR" /\ output = <<>>)

\* C17: for every binary operator node, && and || included, the left and
\* then the right operand are evaluated before the type pre-check and the
\* dispatch: after the left operand the next step starts the right one, the
\* operation is applied to both values, and the right operand's output and
\* by-reference writes have happened also when the left operand alone
\* decides the result (false && f(x), true || f(x)).
C17_BothOperandsEvaluated ==
    [][ /\ (status = "running" /\ Top.k = "op" /\ Top.ph = "right")
          => /\ status' = "running"
             /\ event'.op = "op_right"
             /\ ctl' = <<ExprFrame(Top.node.op2), [Top EXCEPT !.ph = "apply"]>> \o Rest
             /\ vals' = vals
        /\ event'.op = "eval_op"
          => /\ Top.k = "op" /\ Top.ph = "apply"
             /\ event'.left = vals[2]
             /\ event'.right = vals[1]
             /\ event'.result = apply_op(Top.node.elem_type, vals[2], vals[1])
        /\ \A op \in {"&&", "||"}, b \in BOOLEAN :
             (event'.op = "eval_op" /\ program = ShortCircuit(op, b))
             => /\ output' = <<"f">>
                /\ env_get(env', "x") = Value("int", 1)
                /\ event'.right = Value("bool", TRUE)
      ]_vars

\* false && f(x) has been applied to both values after f printed and wrote
\* x through its by-reference formal.
C17_Witness ==
    /\ program = ShortCircuit("&&", FALSE)
    /\ event.op = "eval_op"
    /\ event.left = Value("bool", FALSE)
    /\ event.right = Value("bool", TRUE)
    /\ event.result = Ok(Value("bool", FALSE))
    /\ output = <<"f">>
    /\ env_get(env, "x") = Value("int", 1)


\* C18: for all String operands s and t, s + t evaluates to the String
\* that is s followed by t, and the run goes on.
C18_StringConcatenation ==
    (Applied("+", "string") /\ event.right.type = "string")
    => /\ event.result = Ok(Value("string", value_of(event.left) \o value_of(event.right)))
       /\ status = "running"

\* The last step applied a binary operator to operand types it has no
\* operation for: an operator other than == and != to a function on the
\* left, or an ordering to two Strings, two Bools or two nils.
NoSuchOperation ==
    /\ event.op = "eval_op"
    /\ \/ TypeOf(event.left) = "func" /\ event.oper \notin {"==", "!="}
       \/ /\ event.oper \in {"<", "<=", ">", ">="}
          /\ TypeOf(event.left) = TypeOf(event.right)
          /\ TypeOf(event.left) \in {"string", "bool", "nil"}

\* C19: a binary operator applied to operand types it defines no operation
\* for aborts the run with TYPE_ERROR, never with a host fault.
C19_NoOperationIsTypeError ==
    NoSuchOperation
    => /\ event.result = error("TYPE_ERROR")
       /\ status = "error"
       /\ error_type = "TYPE_ERROR"

\* The integer operation on two numbers; the division by zero is not defined.
IntArithDefined(oper, a, b) == oper # "/" \/ b # 0
IntArith(oper, a, b) ==
    CASE oper = "+" -> a + b
      [] oper = "-" -> a - b
      [] oper = "*" -> a * b
      [] oper = "/" -> a \div b

\* C20: for Bool operands x and y, each of + - * / yields an Int for all
\* four truth combinations, equal to the integer operation on the numbers
\* of x and y (true is 1, false is 0) where that is defined, and never a
\* fault.
C20_BoolArithmetic ==
    (\E oper \in {"+", "-", "*", "/"} : Applied(oper, "bool") /\ event.right.type = "bool")
    => /\ event.result.ok
       /\ status = "running"
       /\ event.result.ok
            => /\ event.result.val.type = "int"
               /\ IntArithDefined(event.oper, Num(event.left), Num(event.right))
                    => value_of(event.result.val)
                         = IntArith(event.oper, Num(event.left), Num(event.right))


\* C21: for operands a and b that are Ints or Bools, in each of the four
\* left/right type combinations, a != b is the negation of a == b: when one
\* of the two has been applied, the other applied to the same operands
\* yields the opposite Bool, and print(a == b, a != b) prints truefalse or
\* falsetrue.
C21_UnequalNegatesEqual ==
    /\ (/\ event.op = "eval_op"
        /\ event.oper \in {"==", "!="}
        /\ TypeOf(event.left) \in {"int", "bool"}
        /\ TypeOf(event.right) \in {"int", "bool"})
         => LET other == IF event.oper = "==" THEN "!=" ELSE "=="
                opposite == apply_op(other, event.left, event.right)
            IN /\ event.result.ok
               /\ opposite.ok
               /\ event.result.val.type = "bool"
               /\ opposite.val.type = "bool"
               /\ value_of(event.result.val) = ~value_of(opposite.val)
    /\ \A a \in Operands, b \in Operands :
         (Final /\ program = EqualAndUnequal(a, b))
         => (status = "done" /\ output \in {<<"truefalse">>, <<"falsetrue">>})

=============================================================================
